---- MODULE Spec2Model ----
(***************************************************************************)
(* UN2COpenAIService (Source/Private/LLM/Providers/N2COpenAIService.cpp):  *)
(* the OpenAI provider adapter.  The adapter's fields are the state, each  *)
(* public method is one action, and the collaborators whose code lives in  *)
(* other files (model table, prompt manager, HTTP handler) are modelled    *)
(* from their documented contracts.                                        *)
(***************************************************************************)
EXTENDS Naturals, Sequences, FiniteSets, TLC

\* ------------------------------------------------------------------ bounds

\* How many SendRequest calls one behaviour makes.
MaxCalls == 1

\* ------------------------------------------------------------------ inputs

\* FN2CLLMConfig values handed to Initialize: a known model with and without
\* system-prompt support, a model on the structured-output denylist, and a
\* model the capability table does not know; with and without an endpoint.
InConfigs ==
    { [ApiEndpoint |-> "",                 ApiKey |-> "k",  Model |-> "gpt-4o"],
      [ApiEndpoint |-> "https://proxy/v1", ApiKey |-> "k2", Model |-> "o1-mini"],
      [ApiEndpoint |-> "",                 ApiKey |-> "k",  Model |-> "o1-mini-2024-09-12"],
      [ApiEndpoint |-> "",                 ApiKey |-> "k2", Model |-> "o1-preview-2024-09-12"],
      [ApiEndpoint |-> "https://proxy/v1", ApiKey |-> "k",  Model |-> "gpt-5"] }

\* The organization id set on the adapter and the reference source configured
\* for the prompt manager: neither set, or both.
Environments ==
    { [OrganizationId |-> "",      SourceFiles |-> ""],
      [OrganizationId |-> "org-1", SourceFiles |-> "[reference source] "] }
UserMessages == {"translate this"}
SystemMessages == {"you are a translator"}
TransportResponses == {"{\"choices\": [...]}", "{\"error\": \"HTTP 400\"}"}

\* Where NewObject returns null inside Initialize ("none": nowhere).
InitFailures == {"none", "HttpHandler", "ResponseParser", "PromptManager"}

\* What a call through a null object pointer does in a given build: the
\* process dies, or the callee runs as it would on a live object.
NullDerefOutcomes == {"crash", "continues"}

\* ------------------------------------------------------------------ state

VARIABLES
    Config,           \* FN2CLLMConfig Config
    OrganizationId,   \* FString OrganizationId
    bIsInitialized,   \* bool bIsInitialized
    HttpHandler,      \* UN2CHttpHandler*: [exists, ExtraHeaders]
    ResponseParser,   \* UN2CResponseParserBase*: TRUE when non-null
    PromptManager,    \* UN2CSystemPromptManager*: TRUE when non-null
    SourceFiles,      \* the reference text the prompt manager prepends
    lastInit,         \* result of the most recent Initialize: "never", "ok", "failed"
    calls,            \* one record per SendRequest call made so far
    out,              \* out-parameters of the most recent accessor call
    crashed           \* the host process died on a null dereference

vars == << Config, OrganizationId, bIsInitialized, HttpHandler, ResponseParser,
           PromptManager, SourceFiles, lastInit, calls, out, crashed >>

\* ------------------------------------------------------- collaborators

\* UN2COpenAIService::DefaultEndpoint.
DefaultEndpoint == "https://api.openai.com/v1/chat/completions"

\* The last enumerator of EN2COpenAIModel; the enumerators are 0..GPT_o1_Mini.
GPT_o1_Mini == 1

\* FN2CLLMModelUtils' table: the model string and the system-prompt flag of
\* each enumerator.
ModelTable ==
    [i \in 0..GPT_o1_Mini |->
        IF i = 0 THEN [value |-> "gpt-4o",  supports |-> TRUE]
                 ELSE [value |-> "o1-mini", supports |-> FALSE]]

GetOpenAIModelValue(Model) == ModelTable[Model].value

SupportsSystemPrompts(Model) == ModelTable[Model].supports

\* UN2CSystemPromptManager::MergePrompts: system content ahead of user content.
MergePrompts(UserMessage, SystemMessage) == SystemMessage \o " | " \o UserMessage

\* UN2CSystemPromptManager::PrependSourceFilesToUserMessage: a no-op when no
\* reference source is configured.
PrependSourceFilesToUserMessage(Content, files) ==
    IF files = "" THEN Content ELSE files \o Content

\* A default-constructed TMap / a null object pointer / an unset out-parameter.
EmptyMap == {}
NullHandler == [exists |-> FALSE, ExtraHeaders |-> EmptyMap]
NoOut == [kind |-> "none"]

\* TMap::Add: the key's earlier value, if any, is replaced.
MapAdd(Map, Key, Value) == {p \in Map : p[1] # Key} \cup {<<Key, Value>>}

\* ------------------------------------------------------- pure methods

\* GetProviderHeaders adding the organization header unconditionally.
GetProviderHeadersAlwaysOrg(OutHeaders, cfg, org) ==
    MapAdd(MapAdd(MapAdd(OutHeaders, "Authorization", "Bearer " \o cfg.ApiKey),
                  "Content-Type", "application/json"),
           "OpenAI-Organization", org)

\* GetProviderHeaders (const): reads Config.ApiKey and OrganizationId.
GetProviderHeaders(OutHeaders, cfg, org) ==
    LET h1 == MapAdd(OutHeaders, "Authorization", "Bearer " \o cfg.ApiKey)
        h2 == MapAdd(h1, "Content-Type", "application/json")
    IN  IF org # "" THEN MapAdd(h2, "OpenAI-Organization", org) ELSE h2

\* The enumerator scan shared by GetConfiguration and FormatRequestPayload:
\* the first i in i..GPT_o1_Mini whose model string equals Model, or
\* GPT_o1_Mini + 1 when the loop runs off the end.
RECURSIVE FindModel(_, _)
FindModel(i, Model) ==
    IF i >= GPT_o1_Mini + 1 THEN GPT_o1_Mini + 1
    ELSE IF GetOpenAIModelValue(i) = Model THEN i
    ELSE FindModel(i + 1, Model)

\* GetConfiguration's value for OutSupportsSystemPrompts.
GetConfigurationSupports(cfg) ==
    LET i == FindModel(0, cfg.Model)
    IN  IF i <= GPT_o1_Mini THEN SupportsSystemPrompts(i) ELSE TRUE

\* FormatRequestPayload's bSupportsSystemPrompts.
FormatSupportsSystemPrompts(cfg) ==
    LET i == FindModel(0, cfg.Model)
    IN  IF i <= GPT_o1_Mini THEN SupportsSystemPrompts(i) ELSE FALSE

\* ------------------------------------------------- FormatRequestPayload

\* An FString holding serialized JSON is the sequence of the JSON documents in
\* it: FString() holds none, a serialized object holds that object.
EmptyFString == << >>
Serialize(RootObject) == << RootObject >>

\* The JsonSchema literal once FJsonSerializer::Deserialize has parsed it.
SchemaObject ==
    [name |-> "n2c_translation",
     schema |->
        [type |-> "object",
         properties |->
            [graphs |->
                [type |-> "array",
                 items |->
                    [type |-> "object",
                     properties |->
                        [graph_name |-> [type |-> "string"],
                         graph_type |-> [type |-> "string"],
                         graph_class |-> [type |-> "string"],
                         code |->
                            [type |-> "object",
                             properties |->
                                [graphDeclaration |-> [type |-> "string"],
                                 graphImplementation |-> [type |-> "string"],
                                 implementationNotes |-> [type |-> "string"]],
                             required |-> <<"graphDeclaration", "graphImplementation">>]],
                     required |-> <<"graph_name", "graph_type", "graph_class", "code">>]]],
         required |-> <<"graphs">>,
         additionalProperties |-> FALSE]]

\* SetNumberField(TEXT("temperature"), 0.0) and SetNumberField(TEXT("max_tokens"), 8192).
Temperature == 0
MaxTokens == 8192

\* A string literal used as an operand of || is a non-null pointer: true.
LiteralAsBool(Literal) == TRUE

\* The condition guarding the response_format block.
SupportsStructuredOutputs(Model) ==
    (Model # "o1-preview-2024-09-12") \/ LiteralAsBool("o1-mini-2024-09-12")

\* FinalContent with the merge branch dropped.
FinalContentUnmerged(bSupportsSystemPrompts, UserMessage, SystemMessage, files) ==
    PrependSourceFilesToUserMessage(UserMessage, files)

\* FinalContent: the user message, merged with the system message when the
\* model takes no system prompt, then the reference source prepended.
FinalContent(bSupportsSystemPrompts, UserMessage, SystemMessage, files) ==
    PrependSourceFilesToUserMessage(
        IF bSupportsSystemPrompts THEN UserMessage
        ELSE MergePrompts(UserMessage, SystemMessage),
        files)

\* MessagesArray: the system message first when the model takes one, then
\* the user message.
MessagesArray(bSupportsSystemPrompts, SystemMessage, Content) ==
    (IF bSupportsSystemPrompts
        THEN << [role |-> "system", content |-> SystemMessage] >>
        ELSE << >>)
    \o << [role |-> "user", content |-> Content] >>

\* RootObject once every field is set.
RootObject(bSupportsSystemPrompts, cfg, Messages) ==
    LET model == [model |-> cfg.Model]
        format ==
            IF SupportsStructuredOutputs(cfg.Model)
            THEN model @@ [response_format |->
                              [type |-> "json_schema", json_schema |-> SchemaObject]]
            ELSE model
        sampling ==
            IF bSupportsSystemPrompts
            THEN format @@ [temperature |-> Temperature, max_tokens |-> MaxTokens]
            ELSE format
    IN  sampling @@ [messages |-> Messages]

\* FormatRequestPayload (const); bParsed is what FJsonSerializer::Deserialize
\* returned for the schema.
FormatRequestPayload(UserMessage, SystemMessage, cfg, files, bParsed) ==
    LET bSupportsSystemPrompts == FormatSupportsSystemPrompts(cfg)
        Content == FinalContent(bSupportsSystemPrompts, UserMessage, SystemMessage, files)
    IN  IF ~bParsed THEN EmptyFString
        ELSE Serialize(RootObject(bSupportsSystemPrompts, cfg,
                 MessagesArray(bSupportsSystemPrompts, SystemMessage, Content)))

\* ------------------------------------------------------------- actions

InitialConfig == [ApiEndpoint |-> "", ApiKey |-> "", Model |-> ""]

Init ==
    /\ Config = InitialConfig
    /\ \E env \in Environments :
          /\ OrganizationId = env.OrganizationId
          /\ SourceFiles = env.SourceFiles
    /\ bIsInitialized = FALSE
    /\ HttpHandler = NullHandler
    /\ ResponseParser = FALSE
    /\ PromptManager = FALSE
    /\ lastInit = "never"
    /\ calls = << >>
    /\ out = NoOut
    /\ crashed = FALSE

\* Config = InConfig, with the default endpoint when none is given.
ConfigFrom(InConfig) ==
    IF InConfig.ApiEndpoint = ""
    THEN [InConfig EXCEPT !.ApiEndpoint = DefaultEndpoint]
    ELSE InConfig

\* Initialize: each NewObject may return null (fail names the one that does);
\* the method returns at the first null, leaving every later field and
\* bIsInitialized as they were.
Initialize(InConfig, fail) ==
    /\ ~crashed
    /\ Config' = ConfigFrom(InConfig)
    /\ HttpHandler' =
          IF fail = "HttpHandler" THEN NullHandler
          ELSE IF fail = "none"
          THEN [exists |-> TRUE,
                ExtraHeaders |-> GetProviderHeaders(EmptyMap, Config', OrganizationId)]
          ELSE [exists |-> TRUE, ExtraHeaders |-> EmptyMap]
    /\ ResponseParser' =
          IF fail = "HttpHandler" THEN ResponseParser
          ELSE fail # "ResponseParser"
    /\ PromptManager' =
          IF fail \in {"HttpHandler", "ResponseParser"} THEN PromptManager
          ELSE fail # "PromptManager"
    /\ bIsInitialized' = IF fail = "none" THEN TRUE ELSE bIsInitialized
    /\ lastInit' = IF fail = "none" THEN "ok" ELSE "failed"
    /\ UNCHANGED << OrganizationId, SourceFiles, calls, out, crashed >>

\* The payload of the not-initialized branch.
NotInitializedError == "{\"error\": \"Service not initialized\"}"

\* OnComplete.ExecuteIfBound(Body): the callback runs when the delegate is bound.
ExecuteIfBound(bound, Body) == IF bound THEN << Body >> ELSE << >>

\* SendRequest's branch for !bIsInitialized, without the callback: the error
\* is logged and the method returns.
NotInitializedLogOnly(call) == call

\* SendRequest's branch for !bIsInitialized: the error is logged, the callback
\* runs with the error payload, the method returns.
NotInitializedBranch(call) ==
    [call EXCEPT !.cb = ExecuteIfBound(call.bound, NotInitializedError),
                 !.syncCb = Len(ExecuteIfBound(call.bound, NotInitializedError))]

\* The record of one SendRequest call when it returns (or dies):
\*   built   FormatRequestPayload was called;
\*   buildFailed  it returned FString() because the schema did not parse;
\*   posts   the PostLLMRequest calls made on the HTTP handler;
\*   cb      the bodies the completion callback has received, in order;
\*   syncCb  how many of them arrived before SendRequest returned.
SendRequestCall(JsonPayload, SystemMessage, bound, bParsed, deref) ==
    LET call == [user |-> JsonPayload, sys |-> SystemMessage, bound |-> bound,
                 lastInit |-> lastInit, built |-> FALSE, buildFailed |-> FALSE,
                 posts |-> << >>,
                 cb |-> << >>, syncCb |-> 0, status |-> "returned"]
    IN  IF ~bIsInitialized
        THEN NotInitializedBranch(call)
        ELSE IF ~PromptManager /\ deref = "crash"
        THEN [call EXCEPT !.built = TRUE, !.status = "crashed"]
        ELSE IF ~HttpHandler.exists /\ deref = "crash"
        THEN [call EXCEPT !.built = TRUE, !.status = "crashed"]
        ELSE [call EXCEPT
                !.built = TRUE,
                !.buildFailed = (FormatRequestPayload(JsonPayload, SystemMessage,
                                     Config, SourceFiles, bParsed) = EmptyFString),
                !.posts = << [Endpoint |-> Config.ApiEndpoint,
                              AuthToken |-> Config.ApiKey,
                              Payload |-> FormatRequestPayload(JsonPayload, SystemMessage,
                                              Config, SourceFiles, bParsed),
                              Headers |-> HttpHandler.ExtraHeaders] >>,
                !.status = "inflight"]

SendRequest(JsonPayload, SystemMessage, bound) ==
    /\ ~crashed
    /\ Len(calls) < MaxCalls
    /\ \E bParsed \in BOOLEAN, deref \in NullDerefOutcomes :
          LET call == SendRequestCall(JsonPayload, SystemMessage, bound, bParsed, deref)
          IN  /\ calls' = Append(calls, call)
              /\ crashed' = (call.status = "crashed")
    /\ UNCHANGED << Config, OrganizationId, bIsInitialized, HttpHandler, ResponseParser,
                    PromptManager, SourceFiles, lastInit, out >>

\* UN2CHttpHandler: the request posted by call i completes and the handler
\* runs the completion it was handed, once, with the response body.
TransportComplete(i, Body) ==
    /\ ~crashed
    /\ i \in 1..Len(calls)
    /\ calls[i].status = "inflight"
    /\ calls' = [calls EXCEPT ![i].cb = @ \o ExecuteIfBound(calls[i].bound, Body),
                              ![i].status = "completed"]
    /\ UNCHANGED << Config, OrganizationId, bIsInitialized, HttpHandler, ResponseParser,
                    PromptManager, SourceFiles, lastInit, out, crashed >>

GetConfiguration ==
    /\ ~crashed
    /\ out' = [kind |-> "GetConfiguration",
               OutEndpoint |-> Config.ApiEndpoint,
               OutAuthToken |-> Config.ApiKey,
               OutSupportsSystemPrompts |-> GetConfigurationSupports(Config)]
    /\ UNCHANGED << Config, OrganizationId, bIsInitialized, HttpHandler, ResponseParser,
                    PromptManager, SourceFiles, lastInit, calls, crashed >>

\* The maps a caller hands to GetProviderHeaders: empty, or already filled.
CallerMaps == { EmptyMap, { <<"Authorization", "Bearer stale">>, <<"X-Trace", "1">> } }

GetProviderHeadersCall(OutHeaders) ==
    /\ ~crashed
    /\ out' = [kind |-> "GetProviderHeaders",
               InHeaders |-> OutHeaders,
               OutHeaders |-> GetProviderHeaders(OutHeaders, Config, OrganizationId)]
    /\ UNCHANGED << Config, OrganizationId, bIsInitialized, HttpHandler, ResponseParser,
                    PromptManager, SourceFiles, lastInit, calls, crashed >>

Next ==
    \/ \E InConfig \in InConfigs, fail \in InitFailures : Initialize(InConfig, fail)
    \/ \E u \in UserMessages, s \in SystemMessages, bound \in BOOLEAN : SendRequest(u, s, bound)
    \/ \E i \in 1..MaxCalls, Body \in TransportResponses : TransportComplete(i, Body)
    \/ GetConfiguration
    \/ \E OutHeaders \in CallerMaps : GetProviderHeadersCall(OutHeaders)

Spec == Init /\ [][Next]_vars

\* The adapter driven by Initialize and requests only: the accessors write
\* nothing but their out-parameters, so no request depends on them.
NextRequests ==
    \/ \E InConfig \in InConfigs, fail \in InitFailures : Initialize(InConfig, fail)
    \/ \E u \in UserMessages, s \in SystemMessages, bound \in BOOLEAN : SendRequest(u, s, bound)
    \/ \E i \in 1..MaxCalls, Body \in TransportResponses : TransportComplete(i, Body)

SpecRequests == Init /\ [][NextRequests]_vars

\* The adapter driven by Initialize and the accessors only.
NextAccessors ==
    \/ \E InConfig \in InConfigs, fail \in InitFailures : Initialize(InConfig, fail)
    \/ GetConfiguration
    \/ \E OutHeaders \in CallerMaps : GetProviderHeadersCall(OutHeaders)

SpecAccessors == Init /\ [][NextAccessors]_vars

\* ------------------------------------------------------------- claims

\* The requests handed to the transport so far, each with its call.
Posted == { <<i, j>> \in (1..Len(calls)) \X {1} : j <= Len(calls[i].posts) }
PostOf(p) == calls[p[1]].posts[p[2]]
CallOf(p) == calls[p[1]]

\* The posted requests whose payload is a serialized JSON object.
Built == { p \in Posted : PostOf(p).Payload # EmptyFString }
PayloadOf(p) == PostOf(p).Payload[1]

\* The model string is the value of some enumerator of the capability table.
KnownModel(Model) == \E i \in 0..GPT_o1_Mini : GetOpenAIModelValue(i) = Model

\* The capability the adapter reports for a model string.
SupportsSystemRole(Model) == GetConfigurationSupports([Model |-> Model])

\* The models known not to take a structured-output constraint.
StructuredOutputDenylist == {"o1-preview-2024-09-12", "o1-mini-2024-09-12"}

\* C1: every SendRequest call made with a bound callback runs that callback
\* exactly once: never twice, and once the call is over (it returned without
\* a transport call, its transport completed, or it died) exactly once.
C1_CallbackExactlyOnce ==
    \A i \in 1..Len(calls) :
        calls[i].bound =>
            /\ Len(calls[i].cb) <= 1
            /\ calls[i].status # "inflight" => Len(calls[i].cb) = 1

\* C2: a SendRequest made before any Initialize runs the callback once,
\* before returning, with {"error": "Service not initialized"}; it builds no
\* payload and posts nothing.
C2_NeverInitializedReportsError ==
    \A i \in 1..Len(calls) :
        (calls[i].lastInit = "never" /\ calls[i].bound) =>
            /\ calls[i].cb = << NotInitializedError >>
            /\ calls[i].syncCb = 1
            /\ calls[i].status = "returned"
            /\ ~calls[i].built
            /\ calls[i].posts = << >>

C2_Witness ==
    \E i \in 1..Len(calls) :
        /\ calls[i].lastInit = "never"
        /\ calls[i].bound
        /\ calls[i].cb = << NotInitializedError >>

\* C3: while the most recent Initialize returned false the adapter is not
\* Ready: a SendRequest reports the not-initialized error to the callback and
\* makes no transport call.
C3_FailedInitializeFaults ==
    /\ lastInit = "failed" => ~bIsInitialized
    /\ \A i \in 1..Len(calls) :
          calls[i].lastInit = "failed" =>
              /\ calls[i].posts = << >>
              /\ calls[i].status = "returned"
              /\ calls[i].cb = ExecuteIfBound(calls[i].bound, NotInitializedError)

\* C4: for a model string the capability table does not hold, the system-role
\* capability is true both as GetConfiguration reports it and as the built
\* payload shows it (system message first, sampling parameters set).
C4_UnknownModelDefaultsTrue ==
    \A p \in Built :
        ~KnownModel(PayloadOf(p).model) =>
            /\ SupportsSystemRole(PayloadOf(p).model)
            /\ PayloadOf(p).messages[1].role = "system"
            /\ "temperature" \in DOMAIN PayloadOf(p)

\* C5: a built payload carries response_format exactly when its model is not
\* on the structured-output denylist.
C5_ResponseFormatIffNotDenylisted ==
    \A p \in Built :
        ("response_format" \in DOMAIN PayloadOf(p))
            <=> (PayloadOf(p).model \notin StructuredOutputDenylist)

\* C6: for a model that supports the system role, the built payload holds the
\* system message (content unchanged) and then the user message (the user
\* content with the reference source prepended, not merged), with
\* temperature = 0.0 and max_tokens = 8192.
C6_SystemRolePayload ==
    \A p \in Built :
        SupportsSystemRole(PayloadOf(p).model) =>
            /\ PayloadOf(p).messages =
                  << [role |-> "system", content |-> CallOf(p).sys],
                     [role |-> "user",
                      content |-> PrependSourceFilesToUserMessage(CallOf(p).user,
                                                                  SourceFiles)] >>
            /\ "temperature" \in DOMAIN PayloadOf(p)
            /\ "max_tokens" \in DOMAIN PayloadOf(p)
            /\ PayloadOf(p).temperature = Temperature
            /\ PayloadOf(p).max_tokens = MaxTokens

\* C7: for a model that does not support the system role, the built payload
\* holds one message, of role user, whose content is the merge of user and
\* system content with the reference source prepended; it sets neither
\* temperature nor max_tokens.
C7_NoSystemRolePayload ==
    \A p \in Built :
        ~SupportsSystemRole(PayloadOf(p).model) =>
            /\ PayloadOf(p).messages =
                  << [role |-> "user",
                      content |-> PrependSourceFilesToUserMessage(
                                      MergePrompts(CallOf(p).user, CallOf(p).sys),
                                      SourceFiles)] >>
            /\ "temperature" \notin DOMAIN PayloadOf(p)
            /\ "max_tokens" \notin DOMAIN PayloadOf(p)

C7_Witness ==
    \E p \in Built :
        /\ ~SupportsSystemRole(PayloadOf(p).model)
        /\ Len(PayloadOf(p).messages) = 1
        /\ SourceFiles # ""

\* A body of the {"error": ...} shape.
ErrorShaped(Body) == Body \in {NotInitializedError, "{\"error\": \"HTTP 400\"}"}

\* C8: a call whose payload build failed on the schema hands the transport
\* nothing (no empty payload) and reports an error-shaped payload to the
\* callback.
C8_FailedBuildNotPosted ==
    \A i \in 1..Len(calls) :
        calls[i].buildFailed =>
            /\ calls[i].posts = << >>
            /\ calls[i].bound =>
                  (Len(calls[i].cb) = 1 /\ ErrorShaped(calls[i].cb[1]))

\* The headers GetProviderHeaders must produce for a configuration.
HeadersAsSpecified(Headers, cfg, org) ==
    /\ \A h \in Headers : h[1] = "Authorization" => h[2] = "Bearer " \o cfg.ApiKey
    /\ << "Authorization", "Bearer " \o cfg.ApiKey >> \in Headers
    /\ \A h \in Headers : h[1] = "Content-Type" => h[2] = "application/json"
    /\ << "Content-Type", "application/json" >> \in Headers
    /\ (\E h \in Headers : h[1] = "OpenAI-Organization") <=> (org # "")
    /\ \A h \in Headers : h[1] = "OpenAI-Organization" => h[2] = org

\* C9: every GetProviderHeaders call yields Authorization = "Bearer " + the
\* API key, Content-Type = application/json, and OpenAI-Organization exactly
\* when the organization id is non-empty (with that id); the call changes no
\* field of the adapter.
C9_ProviderHeaders ==
    [][ \A OutHeaders \in CallerMaps :
           GetProviderHeadersCall(OutHeaders) =>
               /\ HeadersAsSpecified(out'.OutHeaders, Config, OrganizationId)
               /\ UNCHANGED << Config, OrganizationId, bIsInitialized, HttpHandler,
                               ResponseParser, PromptManager >> ]_vars

C9_Witness ==
    /\ out.kind = "GetProviderHeaders"
    /\ out.InHeaders # EmptyMap
    /\ OrganizationId # ""
    /\ << "OpenAI-Organization", OrganizationId >> \in out.OutHeaders
    /\ << "Authorization", "Bearer " \o Config.ApiKey >> \in out.OutHeaders

\* C10: whenever bIsInitialized holds, the HTTP handler, the response parser
\* and the prompt manager exist and the handler's extra headers are the
\* headers of the current configuration.
C10_InitializedMeansWired ==
    bIsInitialized =>
        /\ HttpHandler.exists
        /\ ResponseParser
        /\ PromptManager
        /\ HttpHandler.ExtraHeaders = GetProviderHeaders(EmptyMap, Config, OrganizationId)
====
